---- MODULE Spec2Model ----
(***************************************************************************)
(* Model of the request pipeline of the_junior_associate.utils.base:       *)
(* BaseScraper.__init__, _respect_rate_limit and _make_request.            *)
(*                                                                         *)
(* Time is an integer number of seconds.  time.sleep(d) advances the clock *)
(* by d; an HTTP request takes a latency chosen by the transport.  The     *)
(* transport's answer to each attempt is an input of the attempt.          *)
(***************************************************************************)
EXTENDS Integers, Sequences, FiniteSets

\* ---------------------------------------------------------------- bounds
MaxRetries == 2        \* max_retries ranges over 0..MaxRetries
MaxRateLimit == 2      \* rate_limit ranges over 0..MaxRateLimit
MaxRetryDelay == 1     \* retry_delay ranges over 0..MaxRetryDelay
MaxIdle == 2           \* the caller lets 0..MaxIdle seconds pass between two calls
MaxCalls == 2          \* _make_request calls per adapter instance
MaxSends == 4          \* HTTP requests per adapter instance; a call starts only
                       \* while its max_retries + 1 attempts still fit

\* time.time() at construction: seconds since 1970, far above any rate_limit
Epoch == 100

\* None for an integer-valued field
NoneInt == -1

\* ------------------------------------------------------- transport inputs
\* Status codes the transport may answer with
StatusCodes == {200, 204, 301, 401, 403, 404, 429, 500, 503}

\* Seconds one HTTP request may take, from sending it to its response or exception
Latencies == {1}

\* Retry-After header of a 429 response: absent, or a string of characters
RetryAfterHeaders ==
    { [present |-> FALSE, value |-> <<>>],
      [present |-> TRUE,  value |-> <<"6", "0">>],
      [present |-> TRUE,  value |-> <<"0", "7">>],
      [present |-> TRUE,  value |-> <<"W", "e", "d", ",", " ", "2", "1">>],
      [present |-> TRUE,  value |-> <<>>] }

NoHeader == [present |-> FALSE, value |-> <<>>]

Digits == {"0", "1", "2", "3", "4", "5", "6", "7", "8", "9"}

DigitValue(c) ==
    CASE c = "0" -> 0 [] c = "1" -> 1 [] c = "2" -> 2 [] c = "3" -> 3
      [] c = "4" -> 4 [] c = "5" -> 5 [] c = "6" -> 6 [] c = "7" -> 7
      [] c = "8" -> 8 [] c = "9" -> 9

\* int(s) for a str s: the decimal value of a non-empty string of digits,
\* ValueError for anything else
IsDecimal(s) == Len(s) > 0 /\ \A i \in 1..Len(s) : s[i] \in Digits

RECURSIVE DecimalValue(_)
DecimalValue(s) ==
    IF Len(s) = 0 THEN 0
    ELSE 10 * DecimalValue(SubSeq(s, 1, Len(s) - 1)) + DigitValue(s[Len(s)])

\* base.py:157  int(response.headers.get("Retry-After", 60)):
\* [ok, value]; ok = FALSE is the ValueError int() raises
DefaultRetryAfter == 60

RetryAfterDefaultOnly(h) == [ok |-> TRUE, value |-> DefaultRetryAfter]

RetryAfterOf(h) ==
    IF ~h.present THEN [ok |-> TRUE, value |-> DefaultRetryAfter]
    ELSE IF IsDecimal(h.value) THEN [ok |-> TRUE, value |-> DecimalValue(h.value)]
    ELSE [ok |-> FALSE, value |-> NoneInt]

\* ------------------------------------------------------------------ state
VARIABLES
    rate_limit,          \* self.rate_limit
    max_retries,         \* self.max_retries
    retry_delay,         \* self.retry_delay
    last_request_time,   \* self._last_request_time
    clock,               \* time.time()
    pc,                  \* "idle" (constructed), "loop" (inside the for loop), "done"
    attempt,             \* the loop variable of _make_request
    log,                 \* events of the current call: wait, send, backoff
    result,              \* how the current call ended
    calls,               \* number of _make_request calls started
    sends,               \* number of HTTP requests sent by this instance
    lastAtBegin,         \* _last_request_time when the current call began
    prevSend,            \* time the latest HTTP request of this instance was sent
    sendGap,             \* its distance from the request sent before it
    prevOkDone,          \* completion time of the latest call that returned
    okGap                \* its distance from the completion of the one before

vars == <<rate_limit, max_retries, retry_delay, last_request_time, clock, pc,
          attempt, log, result, calls, sends, lastAtBegin, prevSend,
          sendGap, prevOkDone, okGap>>

config == <<rate_limit, max_retries, retry_delay>>

\* State of the calls made on top of _make_request
VARIABLES
    vin,                 \* arguments of the latest validate_search_params call
    vout,                \* what that call returned or raised
    adapter,             \* the class of the instance
    apc,                 \* where search_cases / get_case_by_id stands
    call,                \* the operation the caller invoked, and what it did
    parsed,              \* what parsing the latest response gave
    idx,                 \* position of the per-item loop over the result links
    cases,               \* the list `cases` of search_cases (items by position)
    failed,              \* positions of the items whose extraction failed
    aresult              \* what the operation returned or raised

adapterVars == <<adapter, apc, call, parsed, idx, cases, failed, aresult>>

\* State of the instance as a context manager
VARIABLES
    session,             \* self.session: "open", or "closed" once close() ran
    cm,                  \* where the with statement stands, and its exception
    ph,                  \* the latest _parse_html call: input, parsers, outcome
    cd,                  \* the CaseData objects made, and the lists they refer to
    duo                  \* two instances used side by side, and the time

extras == <<session, cm, ph, cd, duo>>

outer == <<vin, vout, adapterVars, extras>>

allvars == <<vars, outer>>

\* The url argument of the current call, identified by the number of the call
CurrentUrl == calls

NoResult ==
    [kind |-> "none", exc |-> "", msg |-> "", status_code |-> NoneInt,
     retry_after |-> NoneInt, response |-> NoneInt, url |-> NoneInt]

ReturnedFirstResponse(att, status) ==
    [kind |-> "return", exc |-> "", msg |-> "", status_code |-> status,
     retry_after |-> NoneInt, response |-> 0, url |-> NoneInt]

\* base.py:142-155: `response` is the object the request of this attempt gave
Returned(att, status) ==
    [kind |-> "return", exc |-> "", msg |-> "", status_code |-> status,
     retry_after |-> NoneInt, response |-> att, url |-> NoneInt]

\* A ScrapingError subclass raised with url=url
Raised(exc, msg, status, retryAfter) ==
    [kind |-> "raise", exc |-> exc, msg |-> msg, status_code |-> status,
     retry_after |-> retryAfter, response |-> NoneInt, url |-> CurrentUrl]

\* An exception that is no ScrapingError and leaves _make_request as raised
RaisedForeign(exc, msg) ==
    [kind |-> "raise", exc |-> exc, msg |-> msg, status_code |-> NoneInt,
     retry_after |-> NoneInt, response |-> NoneInt, url |-> NoneInt]

\* One event of a call: ev is "wait" (the pacing sleep), "send" (one HTTP
\* request) or "backoff" (the sleep before a retry); t is when it starts, d how
\* long it takes, out the transport's answer to a send, h the Retry-After
\* header of a 429 answer
Event(ev, t, d, out) == [ev |-> ev, t |-> t, d |-> d, out |-> out, h |-> NoHeader]

Event429(t, d, hdr) == [ev |-> "send", t |-> t, d |-> d, out |-> "429", h |-> hdr]

\* -------------------------------------------- validate_search_params
MaxDay == 3            \* datetime arguments are days 1..MaxDay of the current month

LimitCap == 1000

\* A date argument: None, a datetime (a day of the current month) or a str
NoDate == [type |-> "none", day |-> NoneInt, text |-> <<>>]

DateTimeArg(d) == [type |-> "datetime", day |-> d, text |-> <<>>]

StrArg(t) == [type |-> "str", day |-> NoneInt, text |-> t]

DateStrings ==
    { <<>>, <<"1">>, <<"2">>, <<"1", "0">>, <<"x">>, <<"2", "x">> }

DateArgs ==
    {NoDate} \cup {DateTimeArg(d) : d \in 1..MaxDay} \cup {StrArg(t) : t \in DateStrings}

\* A limit argument: None, an int, or a value of another type
NoLimit == [type |-> "none", n |-> 0]

IntLimit(n) == [type |-> "int", n |-> n]

LimitArgs ==
    {NoLimit} \cup {IntLimit(n) : n \in {-5, -1, 0, 1, 2, 999, 1000, 1001, 5000}}
        \cup {[type |-> "float", n |-> 2], [type |-> "str", n |-> 10]}

\* bool(x) of a date argument: None and "" are falsy, a datetime is truthy
Truthy(a) ==
    CASE a.type = "none" -> FALSE
      [] a.type = "str" -> Len(a.text) > 0
      [] OTHER -> TRUE

\* helpers.py:12-37 validate_date: [ok, day]. dateutil reads a numeral that is
\* a day of the month (those of DateStrings are, in every month) as midnight of
\* that day of the current month, and raises ValueError for text with an
\* unknown token; a datetime is returned as it is
ValidateDate(a) ==
    CASE a.type = "none" -> [ok |-> TRUE, day |-> NoneInt]
      [] a.type = "datetime" -> [ok |-> TRUE, day |-> a.day]
      [] a.type = "str" ->
            IF IsDecimal(a.text)
            THEN [ok |-> TRUE, day |-> DecimalValue(a.text)]
            ELSE [ok |-> FALSE, day |-> NoneInt]
      [] OTHER -> [ok |-> FALSE, day |-> NoneInt]

DatesOutOfOrderOrEqual(s, e) == s >= e

\* base.py:328  params["start_date"] > params["end_date"]
DatesOutOfOrder(s, e) == s > e

\* base.py:332  not isinstance(limit, int) or limit <= 0
LimitRejected(l) == l.type # "int" \/ l.n <= 0

CappedLimitUncapped(n) == n

\* base.py:334  min(limit, 1000)
CappedLimit(n) == IF n <= LimitCap THEN n ELSE LimitCap

ValueErrorOf(msg) ==
    [kind |-> "raise", exc |-> "ValueError", msg |-> msg,
     start_date |-> NoneInt, end_date |-> NoneInt, limit |-> NoneInt]

ParamsOf(sd, ed, lim) ==
    [kind |-> "return", exc |-> "", msg |-> "",
     start_date |-> sd, end_date |-> ed, limit |-> lim]

NoParams ==
    [kind |-> "none", exc |-> "", msg |-> "",
     start_date |-> NoneInt, end_date |-> NoneInt, limit |-> NoneInt]

\* base.py:319-336: the dict validate_search_params returns (NoneInt for a key
\* it does not set), or the ValueError it raises
ValidateSearchParams(start_date, end_date, limit) ==
    LET sd == ValidateDate(start_date)
        ed == ValidateDate(end_date)
        s  == IF Truthy(start_date) THEN sd.day ELSE NoneInt
        e  == IF Truthy(end_date) THEN ed.day ELSE NoneInt
    IN  IF Truthy(start_date) /\ ~sd.ok THEN ValueErrorOf("Invalid date format")
        ELSE IF Truthy(end_date) /\ ~ed.ok THEN ValueErrorOf("Invalid date format")
        ELSE IF s # NoneInt /\ e # NoneInt /\ DatesOutOfOrder(s, e)
             THEN ValueErrorOf("Start date must be before end date")
        ELSE IF limit.type = "none" THEN ParamsOf(s, e, NoneInt)
        ELSE IF LimitRejected(limit) THEN ValueErrorOf("Limit must be a positive integer")
        ELSE ParamsOf(s, e, CappedLimit(limit.n))

NoArgs == [start_date |-> NoDate, end_date |-> NoDate, limit |-> NoLimit]

\* The operation in progress: op is the method the caller invoked, id the kind
\* of case_id given, searched the search_cases call get_case_by_id made (if
\* any), fetched the URL it requested directly (if any)
NoSearch == [query |-> "none", limit |-> NoneInt]

NoCall == [op |-> "none", id |-> "-", searched |-> NoSearch, fetched |-> "none"]

NotParsed == [status |-> "none", items |-> <<>>]

NoOutcome ==
    [kind |-> "none", exc |-> "", status_code |-> NoneInt, retry_after |-> NoneInt,
     cases |-> <<>>]

NoOperation ==
    /\ apc = "idle"
    /\ call = NoCall
    /\ parsed = NotParsed
    /\ idx = 0
    /\ cases = <<>>
    /\ failed = {}
    /\ aresult = NoOutcome

\* The with statement: at is "out" (not entered), "in" (the block runs),
\* "leaving" (the block ended), "exited"; pending is the exception the block
\* raised, propagated the one the with statement raised, closes counts close()
NotEntered == [at |-> "out", pending |-> "none", propagated |-> "none", closes |-> 0]

\* What one BeautifulSoup(content, parser) call does
Tree(parser) == [kind |-> "tree", by |-> parser, exc |-> ""]

Raises(e) == [kind |-> "raise", by |-> "", exc |-> e]

NotRun == [kind |-> "none", by |-> "", exc |-> ""]

NoParse == [content |-> "-", primary |-> NotRun, fallback |-> NotRun, out |-> NotRun]

\* ----------------------------------------------------------- CaseData
\* data_models.py:16-30: the fields, in declaration order
Fields ==
    << "case_name", "case_id", "court", "date", "url", "full_text", "summary",
       "judges", "parties", "legal_issues", "citations", "jurisdiction",
       "case_type", "outcome", "metadata" >>

FieldSet == {Fields[i] : i \in 1..Len(Fields)}

ListFields == {"judges", "parties", "legal_issues", "citations"}

ContainerFields == ListFields \cup {"metadata"}

\* The two variables a caller holds records in
Slots == {"a", "b"}

\* The list and dict objects: one per record and field, and (never used by
\* the code) one per field owned by the class
ContainerIds == (Slots \cup {"class"}) \X ContainerFields

EmptyOf(f) == IF f = "metadata" THEN {} ELSE <<>>

DefaultContainerOfClass(slot, f) == <<"class", f>>

\* data_models.py:23-26, 30  field(default_factory=list / dict): a new object
\* for each instance
DefaultContainer(slot, f) == <<slot, f>>

\* the object the caller passed for the field
PassedContainer(slot, f) == <<slot, f>>

\* CaseData(case_name="A") before any argument is applied to slot
BlankRecord(slot) ==
    [f \in FieldSet |->
        IF f \in ContainerFields THEN DefaultContainer(slot, f)
        ELSE IF f = "case_name" THEN "A" ELSE "None"]

NoRecords ==
    [made |-> {},
     how |-> [s \in Slots |-> "default"],
     recs |-> [s \in Slots |-> [f \in FieldSet |->
                 IF f \in ContainerFields THEN <<s, f>> ELSE "None"]],
     heap |-> [c \in ContainerIds |-> EmptyOf(c[2])],
     edits |-> 0]

\* ------------------------------------------------------- two instances
Instances == {"A", "B"}

\* One instance and the thread that uses it.  rate_limit, max_retries,
\* last_request_time and session are the instance's attributes (the session
\* is named after the instance that created it); pc, wake and attempt are
\* the thread's position in _make_request; own, pacing and used
\* record what the thread did: when its own latest response arrived, its
\* latest pacing sleep, the session its latest request went through
FreshInstance(i, rl, mr) ==
    [rate_limit |-> rl, max_retries |-> mr,
     last_request_time |-> 0, session |-> i,
     pc |-> "idle", wake |-> 0, attempt |-> 0,
     own |-> NoneInt,
     pacing |-> [at |-> NoneInt, before |-> NoneInt, slept |-> 0],
     used |-> "none"]

NoDuo ==
    [now |-> Epoch, actor |-> "none",
     inst |-> [i \in Instances |-> FreshInstance(i, 1, 0)]]

\* base.py:59-60  self.session = requests.Session()
SoloInit ==
    /\ session = "open"
    /\ cm = NotEntered
    /\ ph = NoParse
    /\ cd = NoRecords

ExtrasInit ==
    /\ SoloInit
    /\ duo = NoDuo

OuterInit ==
    /\ vin = NoArgs
    /\ vout = NoParams
    /\ adapter = "BaseScraper"
    /\ NoOperation
    /\ ExtrasInit

\* ------------------------------------------------------------- __init__
InitialLastRequestTimeAtConstruction == Epoch

\* base.py:57  self._last_request_time = 0.0
InitialLastRequestTime == 0

Constructed ==
    /\ rate_limit \in 0..MaxRateLimit
    /\ max_retries \in 0..MaxRetries
    /\ retry_delay \in 0..MaxRetryDelay
    /\ last_request_time = InitialLastRequestTime
    /\ clock = Epoch
    /\ pc = "idle"
    /\ attempt = 0
    /\ log = <<>>
    /\ result = NoResult
    /\ calls = 0
    /\ sends = 0
    /\ lastAtBegin = InitialLastRequestTime
    /\ prevSend = NoneInt
    /\ sendGap = NoneInt
    /\ prevOkDone = NoneInt
    /\ okGap = NoneInt

Init ==
    /\ Constructed
    /\ OuterInit

\* ------------------------------------------------ _respect_rate_limit
RateLimitSleepAlways(now) == rate_limit

\* base.py:96-101: the time _respect_rate_limit sleeps when called at `now`
RateLimitSleep(now) ==
    IF rate_limit > 0
    THEN LET elapsed == now - last_request_time
         IN  IF elapsed < rate_limit THEN rate_limit - elapsed ELSE 0
    ELSE 0

\* --------------------------------------------------------- _make_request
\* base.py:129-136: the caller calls `gap` seconds after the previous call
\* ended (or after construction); the pacing wait, then the loop is entered
\* with attempt 0
BeginRequest(gap) ==
    /\ pc \in {"idle", "done"}
    /\ calls < MaxCalls
    /\ sends + max_retries + 1 <= MaxSends
    /\ LET now == clock + gap
           s == RateLimitSleep(now)
       IN  /\ log' = << Event("wait", now, s, "-") >>
           /\ clock' = now + s
    /\ pc' = "loop"
    /\ attempt' = 0
    /\ result' = NoResult
    /\ calls' = calls + 1
    /\ lastAtBegin' = last_request_time
    /\ UNCHANGED <<config, last_request_time, sends, prevSend, sendGap, prevOkDone,
                   okGap>>

\* _make_request called on its own
MakeRequestBegin(gap) ==
    /\ BeginRequest(gap)
    /\ UNCHANGED outer

CanRetryInclusive(a) == a <= max_retries

\* base.py:168, 189, 201  if attempt < self.max_retries
CanRetry(a) == a < max_retries

BackoffConstant(a) == retry_delay

\* base.py:173, 193, 205  time.sleep(self.retry_delay * (2**attempt))
Backoff(a) == retry_delay * (2 ^ a)

\* The request of this attempt is sent now
SendBookkeeping ==
    /\ sends' = sends + 1
    /\ prevSend' = clock
    /\ sendGap' = IF prevSend = NoneInt THEN NoneInt ELSE clock - prevSend

Finish(r) ==
    /\ pc' = "done"
    /\ result' = r
    /\ UNCHANGED attempt

ContinueLoopSameAttempt ==
    /\ pc' = "loop"
    /\ UNCHANGED <<attempt, result>>

\* `continue` after the backoff sleep; when range(max_retries + 1) is
\* exhausted the loop ends and base.py:214 raises
ContinueLoop ==
    IF attempt + 1 <= max_retries
    THEN /\ pc' = "loop"
         /\ attempt' = attempt + 1
         /\ UNCHANGED result
    ELSE /\ pc' = "done"
         /\ attempt' = attempt
         /\ result' = Raised("NetworkError", "Failed after retries", NoneInt, NoneInt)

\* A retriable failure of this attempt: sleep and continue, or raise `failure`
RetryOrRaise(out, lat, failure) ==
    IF CanRetry(attempt)
    THEN /\ log' = log \o << Event("send", clock, lat, out),
                             Event("backoff", clock + lat, Backoff(attempt), "-") >>
         /\ clock' = clock + lat + Backoff(attempt)
         /\ ContinueLoop
    ELSE /\ log' = Append(log, Event("send", clock, lat, out))
         /\ clock' = clock + lat
         /\ Finish(failure)

\* A response came back: base.py:151 stamps the clock
Responded(lat) == last_request_time' = clock + lat

\* base.py:154-155
Respond200(lat) ==
    /\ pc = "loop"
    /\ SendBookkeeping
    /\ Responded(lat)
    /\ log' = Append(log, Event("send", clock, lat, "200"))
    /\ clock' = clock + lat
    /\ Finish(Returned(attempt, 200))
    /\ prevOkDone' = clock + lat
    /\ okGap' = IF prevOkDone = NoneInt THEN NoneInt ELSE clock + lat - prevOkDone
    /\ UNCHANGED <<config, outer, calls, lastAtBegin>>

\* base.py:156-160
Respond429(lat, h) ==
    /\ pc = "loop"
    /\ SendBookkeeping
    /\ Responded(lat)
    /\ log' = Append(log, Event429(clock, lat, h))
    /\ clock' = clock + lat
    /\ LET ra == RetryAfterOf(h)
       IN  IF ra.ok
           THEN Finish(Raised("RateLimitError", "Rate limited (429)", NoneInt, ra.value))
           ELSE Finish(RaisedForeign("ValueError", "invalid literal for int()"))
    /\ UNCHANGED <<config, outer, calls, lastAtBegin, prevOkDone, okGap>>

\* str(response.status_code), as the log keeps it
StatusText(status) ==
    CASE status = 200 -> "200" [] status = 204 -> "204" [] status = 301 -> "301"
      [] status = 401 -> "401" [] status = 403 -> "403" [] status = 404 -> "404"
      [] status = 429 -> "429" [] status = 500 -> "500" [] status = 503 -> "503"
      [] OTHER -> "?"

IsAuthStatusOnly401(status) == status = 401

\* base.py:161  elif response.status_code in (401, 403)
IsAuthStatus(status) == status \in {401, 403}

IsClientOrServerError(status) == status >= 400

\* base.py:167  elif response.status_code >= 500
IsServerError(status) == status >= 500

\* base.py:161-166
RespondAuth(lat, status) ==
    /\ pc = "loop"
    /\ status \notin {200, 429}
    /\ IsAuthStatus(status)
    /\ SendBookkeeping
    /\ Responded(lat)
    /\ log' = Append(log, Event("send", clock, lat, StatusText(status)))
    /\ clock' = clock + lat
    /\ Finish(Raised("AuthenticationError", "Authentication required", status, NoneInt))
    /\ UNCHANGED <<config, outer, calls, lastAtBegin, prevOkDone, okGap>>

\* base.py:167-180
Respond5xx(lat, status) ==
    /\ pc = "loop"
    /\ status \notin {200, 429}
    /\ ~IsAuthStatus(status)
    /\ IsServerError(status)
    /\ SendBookkeeping
    /\ Responded(lat)
    /\ RetryOrRaise("5xx", lat, Raised("NetworkError", "Server error", status, NoneInt))
    /\ UNCHANGED <<config, outer, calls, lastAtBegin, prevOkDone, okGap>>

\* base.py:181-186
RespondOther(lat, status) ==
    /\ pc = "loop"
    /\ status \notin {200, 429}
    /\ ~IsAuthStatus(status)
    /\ ~IsServerError(status)
    /\ SendBookkeeping
    /\ Responded(lat)
    /\ log' = Append(log, Event("send", clock, lat, StatusText(status)))
    /\ clock' = clock + lat
    /\ Finish(Raised("NetworkError", "HTTP status", status, NoneInt))
    /\ UNCHANGED <<config, outer, calls, lastAtBegin, prevOkDone, okGap>>

\* base.py:188-198: session.request raised requests.exceptions.Timeout
RaiseTimeout(lat) ==
    /\ pc = "loop"
    /\ SendBookkeeping
    /\ RetryOrRaise("timeout", lat,
                    Raised("NetworkError", "Request timeout", NoneInt, NoneInt))
    /\ UNCHANGED <<config, outer, last_request_time, calls, lastAtBegin, prevOkDone, okGap>>

\* base.py:200-208: session.request raised requests.exceptions.ConnectionError
RaiseConnectionError(lat) ==
    /\ pc = "loop"
    /\ SendBookkeeping
    /\ RetryOrRaise("connection", lat,
                    Raised("NetworkError", "Connection failed", NoneInt, NoneInt))
    /\ UNCHANGED <<config, outer, last_request_time, calls, lastAtBegin, prevOkDone, okGap>>

\* base.py:210-211: any other requests.exceptions.RequestException
RaiseRequestException(lat) ==
    /\ pc = "loop"
    /\ SendBookkeeping
    /\ log' = Append(log, Event("send", clock, lat, "requestexception"))
    /\ clock' = clock + lat
    /\ Finish(Raised("NetworkError", "Request failed", NoneInt, NoneInt))
    /\ UNCHANGED <<config, outer, last_request_time, calls, lastAtBegin, prevOkDone, okGap>>

\* session.request raised an exception outside requests.exceptions: no
\* except clause of base.py:188-211 matches and it leaves _make_request as is
RaiseForeignException(lat) ==
    /\ pc = "loop"
    /\ SendBookkeeping
    /\ log' = Append(log, Event("send", clock, lat, "foreign"))
    /\ clock' = clock + lat
    /\ Finish(RaisedForeign("Exception", "foreign"))
    /\ UNCHANGED <<config, outer, last_request_time, calls, lastAtBegin, prevOkDone, okGap>>

Next ==
    \/ \E gap \in 0..MaxIdle : MakeRequestBegin(gap)
    \/ \E lat \in Latencies : Respond200(lat)
    \/ \E lat \in Latencies, h \in RetryAfterHeaders : Respond429(lat, h)
    \/ \E lat \in Latencies, s \in StatusCodes : RespondAuth(lat, s)
    \/ \E lat \in Latencies, s \in StatusCodes : Respond5xx(lat, s)
    \/ \E lat \in Latencies, s \in StatusCodes : RespondOther(lat, s)
    \/ \E lat \in Latencies : RaiseTimeout(lat)
    \/ \E lat \in Latencies : RaiseConnectionError(lat)
    \/ \E lat \in Latencies : RaiseRequestException(lat)
    \/ \E lat \in Latencies : RaiseForeignException(lat)

Spec == Init /\ [][Next]_allvars

\* One call of validate_search_params on any arguments
ValidateCall(start_date, end_date, limit) ==
    /\ vout = NoParams
    /\ vin' = [start_date |-> start_date, end_date |-> end_date, limit |-> limit]
    /\ vout' = ValidateSearchParams(start_date, end_date, limit)
    /\ UNCHANGED <<vars, adapterVars, extras>>

ValidateNext ==
    \E sd \in DateArgs, ed \in DateArgs, lim \in LimitArgs : ValidateCall(sd, ed, lim)

\* validate_search_params alone, on a freshly constructed adapter
ValidateSpec == Init /\ [][ValidateNext]_allvars

\* ------------------------------------------------------------ adapters
MaxItems == 3          \* result links on a search page

DefaultResults == 100

Adapters == {"BAILII", "CourtListener", "FindLaw"}

\* Kinds of case_id: "" / a URL / a path of the site / anything else
IdKinds == {"empty", "url", "path", "citation"}

\* A result item: its extraction yields a record ("ok"), raises ("fails"), or
\* finds no text for the case name ("noname")
ItemKinds == {"ok", "fails", "noname"}

RECURSIVE SeqsUpTo(_, _)
SeqsUpTo(S, n) ==
    IF n = 0 THEN { <<>> }
    ELSE LET shorter == SeqsUpTo(S, n - 1)
         IN  shorter \cup { Append(q, x) : q \in shorter, x \in S }

Pages == SeqsUpTo(ItemKinds, MaxItems)

\* What parsing a 200 response gives: ParsingError, or the page's result links
ParseOutcomes ==
    { [status |-> "ParsingError", items |-> <<>>] }
        \cup { [status |-> "ok", items |-> q] : q \in Pages }

\* Arguments search_cases is called with: start_date, end_date, limit
SearchArgs ==
    { <<NoDate, NoDate, NoLimit>>,
      <<DateTimeArg(1), StrArg(<<"2">>), IntLimit(1)>>,
      <<DateTimeArg(2), DateTimeArg(1), NoLimit>>,
      <<StrArg(<<"x">>), NoDate, NoLimit>>,
      <<NoDate, NoDate, IntLimit(0)>>,
      <<NoDate, NoDate, [type |-> "float", n |-> 2]>> }

Failure(exc, status, retryAfter) ==
    [kind |-> "raise", exc |-> exc, status_code |-> status, retry_after |-> retryAfter,
     cases |-> <<>>]

CasesOutcome(cs) ==
    [kind |-> "cases", exc |-> "", status_code |-> NoneInt, retry_after |-> NoneInt,
     cases |-> cs]

CaseOutcome(c) ==
    [kind |-> "case", exc |-> "", status_code |-> NoneInt, retry_after |-> NoneInt,
     cases |-> <<c>>]

NoneOutcome ==
    [kind |-> "None", exc |-> "", status_code |-> NoneInt, retry_after |-> NoneInt,
     cases |-> <<>>]

ValidationNeverRaises(v) == FALSE

\* bailii.py:68, courtlistener.py:68, findlaw.py:40: the ValueError of
\* validate_search_params leaves search_cases at its first statement
ValidationRaises(v) == v.kind = "raise"

\* bailii.py:98-102, findlaw.py:50-54: except Exception -> ParsingError;
\* courtlistener.py:99-103 catches json.JSONDecodeError only
SearchError(r) ==
    IF adapter = "CourtListener"
    THEN Failure(r.exc, r.status_code, r.retry_after)
    ELSE Failure("ParsingError", NoneInt, NoneInt)

Min(a, b) == IF a <= b THEN a ELSE b

\* bailii.py:110, findlaw.py:59  case_links[:params.get('limit', 100)];
\* courtlistener.py:109  for item in results
Considered(items, limit) ==
    IF adapter = "CourtListener" THEN items
    ELSE SubSeq(items, 1, Min(Len(items), IF limit = NoneInt THEN DefaultResults ELSE limit))

PrependCase(cs, c) == <<c>> \o cs

\* bailii.py:114, courtlistener.py:113, findlaw.py:67  cases.append(case_data)
AppendCase(cs, c) == Append(cs, c)

\* Does extracting the item give a record: courtlistener.py:190-192 returns
\* None for an empty caseName; bailii.py:162-192 and findlaw.py:89-117 build
\* the CaseData whatever the name is
YieldsRecord(item) ==
    item = "ok" \/ (item = "noname" /\ adapter # "CourtListener")

\* bailii.py:110-117, courtlistener.py:109-116: the loop from item i on
RECURSIVE ExtractFrom(_, _, _)
ExtractFrom(items, i, acc) ==
    IF i > Len(items) THEN acc
    ELSE ExtractFrom(items, i + 1,
                     IF YieldsRecord(items[i]) THEN AppendCase(acc, i) ELSE acc)

\* What the caller of the operation receives for the list search_cases built:
\* bailii.py:120 return cases; bailii.py:146-149 cases[0] or None
Deliver(c, cs) ==
    IF c.op = "search_cases" THEN CasesOutcome(cs)
    ELSE IF Len(cs) > 0 THEN CaseOutcome(cs[1]) ELSE NoneOutcome

\* search_cases up to the call of _make_request, entered by the caller or by
\* get_case_by_id (c says which)
EnterSearch(c, start_date, end_date, limit) ==
    LET v == ValidateSearchParams(start_date, end_date, limit)
    IN  /\ vin' = [start_date |-> start_date, end_date |-> end_date, limit |-> limit]
        /\ vout' = v
        /\ call' = c
        /\ parsed' = NotParsed
        /\ idx' = 0
        /\ cases' = <<>>
        /\ failed' = {}
        /\ IF ValidationRaises(v)
           THEN /\ apc' = "idle"
                /\ aresult' = Failure("ValueError", NoneInt, NoneInt)
                /\ UNCHANGED vars
           ELSE /\ BeginRequest(0)
                /\ apc' = "search"
                /\ aresult' = NoOutcome
        /\ UNCHANGED <<adapter, extras>>

\* The caller calls search_cases, as the first operation on the instance
SearchCases(start_date, end_date, limit) ==
    /\ apc = "idle"
    /\ call = NoCall
    /\ EnterSearch([op |-> "search_cases", id |-> "-", searched |-> NoSearch,
                    fetched |-> "none"], start_date, end_date, limit)

\* bailii.py:140-149, findlaw.py:79, courtlistener.py:139: does get_case_by_id
\* request a URL itself rather than search
FetchesDirectly(id) == adapter \in {"CourtListener", "FindLaw"} \/ id \in {"url", "path"}

\* the URL requested: the case_id itself, or one built around it
FetchedUrl(id) == IF adapter = "BAILII" /\ id = "url" THEN "case_id" ELSE "built"

\* The caller calls get_case_by_id, as the first operation on the instance
GetCaseById(id) ==
    /\ apc = "idle"
    /\ call = NoCall
    /\ IF id = "empty"
       THEN /\ call' = [op |-> "get_case_by_id", id |-> id, searched |-> NoSearch,
                        fetched |-> "none"]
            /\ aresult' = Failure("ValueError", NoneInt, NoneInt)
            /\ UNCHANGED <<vars, vin, vout, adapter, apc, parsed, idx, cases, failed, extras>>
       ELSE IF FetchesDirectly(id)
       THEN /\ BeginRequest(0)
            /\ call' = [op |-> "get_case_by_id", id |-> id, searched |-> NoSearch,
                        fetched |-> FetchedUrl(id)]
            /\ apc' = "direct"
            /\ parsed' = NotParsed
            /\ aresult' = NoOutcome
            /\ UNCHANGED <<vin, vout, adapter, idx, cases, failed, extras>>
       ELSE EnterSearch([op |-> "get_case_by_id", id |-> id,
                         searched |-> [query |-> "case_id", limit |-> 1],
                         fetched |-> "none"], NoDate, NoDate, IntLimit(1))

\* search_cases from the return of _make_request on: bailii.py:99-120,
\* courtlistener.py:100-119, findlaw.py:51-59.  p is what parsing gives
AfterSearchRequest(p) ==
    /\ apc = "search"
    /\ pc = "done"
    /\ (result.kind = "raise") <=> (p = NotParsed)
    /\ parsed' = p
    /\ IF result.kind = "raise"
       THEN /\ aresult' = SearchError(result)
            /\ apc' = "idle"
            /\ UNCHANGED <<idx, cases, failed>>
       ELSE IF p.status = "ParsingError"
       THEN /\ aresult' = Failure("ParsingError", NoneInt, NoneInt)
            /\ apc' = "idle"
            /\ UNCHANGED <<idx, cases, failed>>
       ELSE IF adapter = "FindLaw"
       THEN /\ apc' = "items"
            /\ idx' = 1
            /\ UNCHANGED <<cases, failed, aresult>>
       ELSE LET its == Considered(p.items, vout.limit)
                cs  == ExtractFrom(its, 1, <<>>)
            IN  /\ cases' = cs
                /\ failed' = {i \in 1..Len(its) : ~YieldsRecord(its[i])}
                /\ idx' = Len(its) + 1
                /\ aresult' = Deliver(call, cs)
                /\ apc' = "idle"
    /\ UNCHANGED <<vars, vin, vout, adapter, call, extras>>

\* findlaw.py:59-72: one turn of the loop up to _scrape_case_from_url's
\* request, or the return after the last link
FindLawLoop ==
    /\ apc = "items"
    /\ LET its == Considered(parsed.items, vout.limit)
       IN  IF idx > Len(its)
           THEN /\ aresult' = Deliver(call, cases)
                /\ apc' = "idle"
                /\ UNCHANGED <<vars, idx, failed>>
           ELSE IF its[idx] = "fails"
           THEN /\ failed' = failed \cup {idx}
                /\ idx' = idx + 1
                /\ UNCHANGED <<vars, apc, aresult>>
           ELSE /\ BeginRequest(0)
                /\ apc' = "item"
                /\ UNCHANGED <<idx, failed, aresult>>
    /\ UNCHANGED <<vin, vout, adapter, call, parsed, cases, extras>>

\* findlaw.py:82-121 _scrape_case_from_url from the return of _make_request
\* on, and findlaw.py:66-67
FindLawItemDone(parseOk) ==
    /\ apc = "item"
    /\ pc = "done"
    /\ result.kind = "raise" => parseOk
    /\ IF result.kind = "return" /\ parseOk
       THEN /\ cases' = AppendCase(cases, idx)
            /\ UNCHANGED failed
       ELSE /\ failed' = failed \cup {idx}
            /\ UNCHANGED cases
    /\ idx' = idx + 1
    /\ apc' = "items"
    /\ UNCHANGED <<vars, vin, vout, adapter, call, parsed, aresult, extras>>

\* get_case_by_id from the return of its own _make_request on: bailii.py:151-157,
\* findlaw.py:82-121, courtlistener.py:137-157 (opinions, then clusters)
AfterDirectFetch(p) ==
    /\ apc \in {"direct", "cluster"}
    /\ pc = "done"
    /\ (result.kind = "raise") <=> (p = NotParsed)
    /\ p.items = <<>>
    /\ parsed' = p
    /\ IF result.kind = "return" /\ p.status = "ok"
       THEN /\ aresult' = CaseOutcome(1)
            /\ apc' = "idle"
            /\ UNCHANGED vars
       ELSE IF adapter = "CourtListener" /\ apc = "direct"
       THEN /\ BeginRequest(0)
            /\ apc' = "cluster"
            /\ UNCHANGED aresult
       ELSE /\ aresult' = NoneOutcome
            /\ apc' = "idle"
            /\ UNCHANGED vars
    /\ UNCHANGED <<vin, vout, adapter, call, idx, cases, failed, extras>>

\* An adapter constructed with the default rate_limit and retry_delay
\* (base.py:37, 40) and with no retry or one
AdapterInit ==
    /\ Constructed
    /\ rate_limit = 1
    /\ retry_delay = 1
    /\ max_retries <= 1
    /\ vin = NoArgs
    /\ vout = NoParams
    /\ adapter \in Adapters
    /\ NoOperation
    /\ ExtrasInit

AdapterNext ==
    \/ \E a \in SearchArgs : SearchCases(a[1], a[2], a[3])
    \/ \E id \in IdKinds : GetCaseById(id)
    \/ \E p \in ParseOutcomes \cup {NotParsed} : AfterSearchRequest(p)
    \/ FindLawLoop
    \/ \E ok \in BOOLEAN : FindLawItemDone(ok)
    \/ \E p \in ParseOutcomes \cup {NotParsed} : AfterDirectFetch(p)
    \/ \E lat \in Latencies : Respond200(lat)
    \/ \E lat \in Latencies, h \in RetryAfterHeaders : Respond429(lat, h)
    \/ \E lat \in Latencies, s \in StatusCodes : RespondAuth(lat, s)
    \/ \E lat \in Latencies, s \in StatusCodes : Respond5xx(lat, s)
    \/ \E lat \in Latencies, s \in StatusCodes : RespondOther(lat, s)
    \/ \E lat \in Latencies : RaiseTimeout(lat)
    \/ \E lat \in Latencies : RaiseConnectionError(lat)
    \/ \E lat \in Latencies : RaiseRequestException(lat)
    \/ \E lat \in Latencies : RaiseForeignException(lat)

\* search_cases and get_case_by_id of an adapter, over the request pipeline
AdapterSpec == AdapterInit /\ [][AdapterNext]_allvars

\* ------------------------------------------------------ context manager
MaxCloses == 3         \* calls of close() on one instance

\* Exceptions the block of a with statement may raise
BlockExceptions == {"NetworkError", "ValueError", "KeyboardInterrupt"}

\* base.py:338-341 close(): the instance always has its session attribute
CloseSession ==
    /\ session' = "closed"
    /\ cm.closes < MaxCloses

ExitSuppressesAlways == TRUE

\* base.py:347-349 __exit__ returns None, which is falsy: the exception of
\* the block is re-raised by the with statement
ExitSuppresses == FALSE

\* base.py:343-345 __enter__
Enter ==
    /\ cm.at = "out"
    /\ cm.closes = 0
    /\ cm' = [cm EXCEPT !.at = "in"]
    /\ UNCHANGED <<vars, vin, vout, adapterVars, session, ph, cd, duo>>

\* The block of the with statement ends normally
BlockReturns ==
    /\ cm.at = "in"
    /\ cm' = [cm EXCEPT !.at = "leaving"]
    /\ UNCHANGED <<vars, vin, vout, adapterVars, session, ph, cd, duo>>

\* An exception leaves the block
BlockRaises(e) ==
    /\ cm.at = "in"
    /\ cm' = [cm EXCEPT !.at = "leaving", !.pending = e]
    /\ UNCHANGED <<vars, vin, vout, adapterVars, session, ph, cd, duo>>

\* base.py:347-349 __exit__, and what the with statement does with its result
Exit ==
    /\ cm.at = "leaving"
    /\ CloseSession
    /\ cm' = [cm EXCEPT !.at = "exited", !.closes = @ + 1,
                        !.propagated = IF ExitSuppresses THEN "none" ELSE cm.pending]
    /\ UNCHANGED <<vars, vin, vout, adapterVars, ph, cd, duo>>

\* close() called by the user, outside a with block
Close ==
    /\ cm.at \in {"out", "exited"}
    /\ CloseSession
    /\ cm' = [cm EXCEPT !.closes = @ + 1]
    /\ UNCHANGED <<vars, vin, vout, adapterVars, ph, cd, duo>>

ContextNext ==
    \/ Enter
    \/ BlockReturns
    \/ \E e \in BlockExceptions : BlockRaises(e)
    \/ Exit
    \/ Close

\* An instance used as a context manager, or closed by hand
ContextSpec == Init /\ [][ContextNext]_allvars

\* ----------------------------------------------------------- _parse_html
\* Inputs of _parse_html: None, the empty string, markup that is not
\* well-formed, well-formed markup
Contents == {"None", "empty", "malformed", "wellformed"}

\* Exceptions a BeautifulSoup call raises: the parser is not installed, the
\* markup is no string, the parser rejects the markup, the tree is too deep
ParserExceptions ==
    {"FeatureNotFound", "TypeError", "ParserRejectedMarkup", "RecursionError"}

\* What BeautifulSoup(content, parser) can do.  None has no length, so any
\* parser raises on it (lxml, when not installed, FeatureNotFound first); the
\* empty string parses to an empty tree; html.parser is always installed
ParserOutcomes(content, parser) ==
    LET missing == IF parser = "lxml" THEN {Raises("FeatureNotFound")} ELSE {}
    IN  CASE content = "None" -> {Raises("TypeError")} \cup missing
          [] content = "empty" -> {Tree(parser)} \cup missing
          [] content = "wellformed" -> {Tree(parser)} \cup missing
          [] OTHER -> {Tree(parser), Raises("ParserRejectedMarkup"),
                       Raises("RecursionError")} \cup missing

FallbackFailureReraised(e) == Raises(e)

\* base.py:234-235  except Exception as e2: raise ParsingError(...) from e2
FallbackFailure(e) == Raises("ParsingError")

\* base.py:229-235: the record of one _parse_html call, lx and hp being what
\* the two parsers do with the content
ParseHtmlOf(content, lx, hp) ==
    IF lx.kind = "tree"
    THEN [content |-> content, primary |-> lx, fallback |-> NotRun, out |-> lx]
    ELSE IF hp.kind = "tree"
    THEN [content |-> content, primary |-> lx, fallback |-> hp, out |-> hp]
    ELSE [content |-> content, primary |-> lx, fallback |-> hp,
          out |-> FallbackFailure(hp.exc)]

\* One call of _parse_html
ParseHtml(content, lx, hp) ==
    /\ ph = NoParse
    /\ ph' = ParseHtmlOf(content, lx, hp)
    /\ UNCHANGED <<vars, vin, vout, adapterVars, session, cm, cd, duo>>

ParseNext ==
    \E content \in Contents :
        \E lx \in ParserOutcomes(content, "lxml"),
           hp \in ParserOutcomes(content, "html.parser") : ParseHtml(content, lx, hp)

\* _parse_html alone
ParseSpec == Init /\ [][ParseNext]_allvars

\* ------------------------------------------------- CaseData operations
MaxEdits == 1          \* operations applied to records after construction

\* How a record is built: with case_name alone, or with one more argument
\* (for case_name: another name)
Variants == {"default"} \cup FieldSet

\* the value of field f of the record in slot
FieldValue(slot, f) ==
    IF f \in ContainerFields THEN cd.heap[cd.recs[slot][f]] ELSE cd.recs[slot][f]

Value(slot) == [f \in FieldSet |-> FieldValue(slot, f)]

ComparedFieldsWithoutMetadata == SubSeq(Fields, 1, Len(Fields) - 1)

\* data_models.py:10 @dataclass: eq=True compares every field (compare=True)
ComparedFields == Fields

\* the generated __eq__: the tuples of the compared fields are equal
Equal(a, b) ==
    [i \in 1..Len(ComparedFields) |-> FieldValue(a, ComparedFields[i])]
        = [i \in 1..Len(ComparedFields) |-> FieldValue(b, ComparedFields[i])]

OthersUnchanged == UNCHANGED <<vars, vin, vout, adapterVars, session, cm, ph, duo>>

\* slot = CaseData(case_name=..., [v=...])
Construct(slot, v) ==
    /\ slot \notin cd.made
    /\ LET blank == BlankRecord(slot)
           rec == [f \in FieldSet |->
                     IF f # v THEN blank[f]
                     ELSE IF f \in ContainerFields THEN PassedContainer(slot, f)
                     ELSE IF f = "case_name" THEN "B" ELSE "x"]
           heap == IF v \in ListFields
                   THEN [cd.heap EXCEPT ![PassedContainer(slot, v)] = <<"x">>]
                   ELSE IF v = "metadata"
                   THEN [cd.heap EXCEPT ![PassedContainer(slot, v)] = {"source"}]
                   ELSE cd.heap
       IN  cd' = [cd EXCEPT !.made = @ \cup {slot}, !.how[slot] = v,
                            !.recs[slot] = rec, !.heap = heap]
    /\ OthersUnchanged

\* slot.f.append("y")
AppendTo(slot, f) ==
    /\ slot \in cd.made
    /\ cd.edits < MaxEdits
    /\ cd' = [cd EXCEPT !.heap[cd.recs[slot][f]] = Append(@, "y"), !.edits = @ + 1]
    /\ OthersUnchanged

\* slot.metadata["k"] = ...
MetadataInsert(slot) ==
    /\ slot \in cd.made
    /\ cd.edits < MaxEdits
    /\ cd' = [cd EXCEPT !.heap[cd.recs[slot]["metadata"]] = @ \cup {"k"},
                        !.edits = @ + 1]
    /\ OthersUnchanged

\* slot.f = "z": the dataclass is not frozen
AssignField(slot, f) ==
    /\ slot \in cd.made
    /\ cd.edits < MaxEdits
    /\ cd' = [cd EXCEPT !.recs[slot][f] = "z", !.edits = @ + 1]
    /\ OthersUnchanged

\* data_models.py:32-40  d = slot.to_dict(), then d[f].append("y") /
\* d[f]["k"] = ... for a list or dict field, d[f] = "z" for another: the
\* dict is new, its list and dict values are the record's own objects
ToDictEdit(slot, f) ==
    /\ slot \in cd.made
    /\ cd.edits < MaxEdits
    /\ cd' = [cd EXCEPT !.edits = @ + 1,
                        !.heap = IF f \in ListFields
                                 THEN [@ EXCEPT ![cd.recs[slot][f]] = Append(@, "y")]
                                 ELSE IF f = "metadata"
                                 THEN [@ EXCEPT ![cd.recs[slot][f]] = @ \cup {"k"}]
                                 ELSE @]
    /\ OthersUnchanged

RecordNext ==
    \/ \E slot \in Slots, v \in Variants : Construct(slot, v)
    \/ \E slot \in Slots, f \in ListFields : AppendTo(slot, f)
    \/ \E slot \in Slots : MetadataInsert(slot)
    \/ \E slot \in Slots, f \in FieldSet \ ContainerFields : AssignField(slot, f)
    \/ \E slot \in Slots, f \in FieldSet : ToDictEdit(slot, f)

\* No scraper is involved: the instance is the default one, without retries
RecordInit ==
    /\ Init
    /\ rate_limit = 1
    /\ retry_delay = 1
    /\ max_retries = 0

\* CaseData objects built and edited by a caller
RecordSpec == RecordInit /\ [][RecordNext]_allvars

\* ------------------------------------- _make_request on two instances
MaxTime == 2           \* seconds that pass after the instances are built

SelfOfFirstInstance(i) == "A"

\* `self` in the code thread i runs: its own instance
Self(i) == i

\* base.py:96-101 on the attributes of instance o at time t
SleepOf(o, t) ==
    IF o.rate_limit > 0
    THEN LET elapsed == t - o.last_request_time
         IN  IF elapsed < o.rate_limit THEN o.rate_limit - elapsed ELSE 0
    ELSE 0

SoloUnchanged ==
    UNCHANGED <<vars, vin, vout, adapterVars, session, cm, ph, cd>>

\* base.py:129-136: thread i calls _make_request; _respect_rate_limit reads
\* self.rate_limit and self._last_request_time and sleeps
Begin2(i) ==
    LET me == duo.inst[i]
        s  == SleepOf(duo.inst[Self(i)], duo.now)
    IN  /\ me.pc = "idle"
        /\ duo' = [duo EXCEPT
                     !.actor = i,
                     !.inst[i].pc = IF s > 0 THEN "sleeping" ELSE "loop",
                     !.inst[i].wake = duo.now + s,
                     !.inst[i].attempt = 0,
                     !.inst[i].pacing = [at |-> duo.now, before |-> me.own, slept |-> s]]
        /\ SoloUnchanged

\* time.sleep returns once the time has passed
Wake2(i) ==
    /\ duo.inst[i].pc = "sleeping"
    /\ duo.now >= duo.inst[i].wake
    /\ duo' = [duo EXCEPT !.actor = i, !.inst[i].pc = "loop"]
    /\ SoloUnchanged

\* base.py:142-148  self.session.request(...)
Send2(i) ==
    /\ duo.inst[i].pc = "loop"
    /\ duo' = [duo EXCEPT !.actor = i, !.inst[i].pc = "sending",
                          !.inst[i].used = duo.inst[Self(i)].session]
    /\ SoloUnchanged

\* the thread backs off (base.py:168-175, 189-195) or leaves the call
AfterFailure(i, d) ==
    IF d.inst[i].attempt < d.inst[Self(i)].max_retries
    THEN [d EXCEPT !.inst[i].pc = "sleeping",
                   !.inst[i].wake = d.now + 2 ^ d.inst[i].attempt,
                   !.inst[i].attempt = @ + 1]
    ELSE [d EXCEPT !.inst[i].pc = "idle"]

\* base.py:151-211: the request is answered (out is "200", "404", "5xx") and
\* self._last_request_time is stamped, or it raises ("timeout")
Answer2(i, out) ==
    /\ duo.inst[i].pc = "sending"
    /\ LET acted == [duo EXCEPT !.actor = i]
           stamped == [acted EXCEPT !.inst[Self(i)].last_request_time = duo.now,
                                    !.inst[i].own = duo.now]
       IN  duo' = CASE out = "timeout" -> AfterFailure(i, acted)
                    [] out = "5xx" -> AfterFailure(i, stamped)
                    [] OTHER -> [stamped EXCEPT !.inst[i].pc = "idle"]
    /\ SoloUnchanged

\* a second passes
Tick ==
    /\ duo.now < Epoch + MaxTime
    /\ duo' = [duo EXCEPT !.now = @ + 1, !.actor = "none"]
    /\ SoloUnchanged

TwoNext ==
    \/ \E i \in Instances : Begin2(i)
    \/ \E i \in Instances : Wake2(i)
    \/ \E i \in Instances : Send2(i)
    \/ \E i \in Instances, out \in {"200", "404", "5xx", "timeout"} : Answer2(i, out)
    \/ Tick

\* Two instances built with any rate_limit, A with no retry and B with one
\* (retry_delay 1, the default); the variables of the single instance rest
TwoInit ==
    /\ Constructed
    /\ rate_limit = 1
    /\ retry_delay = 1
    /\ max_retries = 0
    /\ vin = NoArgs
    /\ vout = NoParams
    /\ adapter = "BaseScraper"
    /\ NoOperation
    /\ SoloInit
    /\ \E ra \in 1..MaxRateLimit, rb \in 1..MaxRateLimit :
          duo = [NoDuo EXCEPT !.inst = [i \in Instances |->
                    IF i = "A" THEN FreshInstance(i, ra, 0)
                    ELSE FreshInstance(i, rb, 1)]]

\* Two instances, each used by its own thread
TwoSpec == TwoInit /\ [][TwoNext]_allvars

\* ----------------------------------------------------- views of the log
IsSend(e) == e.ev = "send"
IsBackoff(e) == e.ev = "backoff"

\* The HTTP requests and the backoff sleeps of the current call, in order
Sends == SelectSeq(log, IsSend)
Backoffs == SelectSeq(log, IsBackoff)

LastEvent == log[Len(log)]

Max(a, b) == IF a >= b THEN a ELSE b

\* The decimal digits of a natural number, most significant first
RECURSIVE DigitsOfNat(_)
DigitsOfNat(n) ==
    IF n < 10 THEN << CHOOSE c \in Digits : DigitValue(c) = n >>
    ELSE Append(DigitsOfNat(n \div 10), CHOOSE c \in Digits : DigitValue(c) = n % 10)

RECURSIVE StripLeadingZeros(_)
StripLeadingZeros(s) ==
    IF Len(s) > 1 /\ s[1] = "0" THEN StripLeadingZeros(Tail(s)) ELSE s

\* ===================================================================== C1
\* The call has ended and the transport timed out on every attempt
AllAttemptsTimedOut ==
    /\ pc = "done"
    /\ Len(Sends) >= 1
    /\ \A i \in 1..Len(Sends) : Sends[i].out = "timeout"

\* C1: when every HTTP attempt times out, _make_request raises NetworkError
\* after exactly max_retries + 1 requests, having slept for backoff exactly
\* max_retries times, and the last thing it did was a request, not a sleep.
C1_TimeoutsExhaustRetries ==
    AllAttemptsTimedOut =>
        /\ result.kind = "raise"
        /\ result.exc = "NetworkError"
        /\ Len(Sends) = max_retries + 1
        /\ Len(Backoffs) = max_retries
        /\ LastEvent.ev = "send"

C1_Witness == AllAttemptsTimedOut /\ max_retries = 2

\* ===================================================================== C2
\* The call has ended after 5xx on the first max_retries attempts and 200 on
\* attempt max_retries + 1
FiveXXThenOk ==
    /\ pc = "done"
    /\ Len(Sends) = max_retries + 1
    /\ \A i \in 1..max_retries : Sends[i].out = "5xx"
    /\ Sends[max_retries + 1].out = "200"

ReturnsLast200 ==
    /\ result.kind = "return"
    /\ result.status_code = 200
    /\ result.response = max_retries

BackoffsDouble ==
    /\ Len(Backoffs) = max_retries
    /\ \A k \in 1..Len(Backoffs) : Backoffs[k].d = retry_delay * (2 ^ (k - 1))
    /\ \A k \in 1..(Len(Backoffs) - 1) : Backoffs[k + 1].d = 2 * Backoffs[k].d

BackoffsStrictlyIncrease ==
    \A k \in 1..(Len(Backoffs) - 1) : Backoffs[k].d < Backoffs[k + 1].d

\* C2 as stated: after 5xx on the first max_retries attempts and 200 on the
\* last, the 200 response is returned, the k-th backoff is retry_delay * 2^k
\* and the backoffs are strictly increasing.
C2_Original ==
    FiveXXThenOk => ReturnsLast200 /\ BackoffsDouble /\ BackoffsStrictlyIncrease

\* C2 amended: after 5xx on the first max_retries attempts and 200 on the
\* last, the 200 response is returned and the k-th backoff is
\* retry_delay * 2^k, each the double of the one before; the backoffs are
\* strictly increasing when retry_delay > 0 (with retry_delay = 0 all are 0).
C2_BackoffDoubles ==
    FiveXXThenOk =>
        /\ ReturnsLast200
        /\ BackoffsDouble
        /\ retry_delay > 0 => BackoffsStrictlyIncrease

C2_Witness == FiveXXThenOk /\ max_retries = 2 /\ retry_delay = 1

\* ===================================================================== C3
\* The call has ended on a 429 whose Retry-After header is a decimal number
Ended429Numeric ==
    /\ pc = "done"
    /\ LastEvent.out = "429"
    /\ LastEvent.h.present
    /\ IsDecimal(LastEvent.h.value)

\* C3: a 429 with a numeric Retry-After raises RateLimitError whose
\* retry_after is the number the header spells, and a 429 is always the last
\* request of its call, on whichever attempt it arrives.
C3_RateLimitCarriesRetryAfter ==
    /\ Ended429Numeric =>
          /\ result.kind = "raise"
          /\ result.exc = "RateLimitError"
          /\ result.retry_after >= 0
          /\ DigitsOfNat(result.retry_after) = StripLeadingZeros(LastEvent.h.value)
    /\ \A i \in 1..Len(log) : log[i].out = "429" => (i = Len(log) /\ pc = "done")

C3_Witness ==
    /\ Ended429Numeric
    /\ Len(Sends) = 3
    /\ Sends[1].out = "timeout"
    /\ Sends[2].out = "5xx"
    /\ result.retry_after = 7

\* ===================================================================== C4
\* C4: a 429 whose Retry-After header is absent or is not an integer still
\* raises RateLimitError, with retry_after = 60.
C4_Original ==
    (/\ pc = "done"
     /\ LastEvent.out = "429"
     /\ (~LastEvent.h.present \/ ~IsDecimal(LastEvent.h.value)))
    => (/\ result.kind = "raise"
        /\ result.exc = "RateLimitError"
        /\ result.retry_after = 60)

\* ===================================================================== C5
\* C5: every HTTP attempt of a call, the first and each retry, comes right
\* after a rate-limiter wait.
C5_Original ==
    \A i \in 1..Len(log) :
        log[i].ev = "send" => (i > 1 /\ log[i - 1].ev = "wait")

\* ===================================================================== C6
\* C6: any two consecutive HTTP requests of one instance are sent at least
\* rate_limit seconds apart.
C6_Original == sendGap = NoneInt \/ sendGap >= rate_limit

\* ===================================================================== C7
\* C7: the pacing wait of a call is exactly
\* max(0, rate_limit - (now - _last_request_time)); two successive returned
\* calls complete at least rate_limit apart; no sleep once rate_limit has
\* elapsed; no sleep at all with rate_limit = 0.
C7_LimiterSleepsTheRemainder ==
    /\ Len(log) >= 1 =>
          LET w == log[1]
              elapsed == w.t - lastAtBegin
          IN  /\ w.ev = "wait"
              /\ w.d = Max(0, rate_limit - elapsed)
              /\ elapsed >= rate_limit => w.d = 0
              /\ rate_limit = 0 => w.d = 0
    /\ okGap = NoneInt \/ okGap >= rate_limit

C7_Witness ==
    /\ pc = "done"
    /\ calls = 2
    /\ okGap # NoneInt
    /\ rate_limit = 2
    /\ log[1].d = 1

\* ===================================================================== C8
\* Completion time of the last attempt of the current call
LastAttemptDone == Sends[Len(Sends)].t + Sends[Len(Sends)].d

\* C8: _last_request_time is not written before a request is issued, and
\* every call that has ended, by returning or by raising, has set it to the
\* completion time of its last attempt.
C8_Original ==
    /\ (pc = "loop" /\ Len(Sends) = 0) => last_request_time = lastAtBegin
    /\ pc = "done" => last_request_time = LastAttemptDone

\* ===================================================================== C9
\* C9: the first _make_request of a fresh adapter does not sleep in the rate
\* limiter, whatever rate_limit is.
C9_FirstCallNeverWaits ==
    (calls = 1 /\ Len(log) >= 1) => (log[1].ev = "wait" /\ log[1].d = 0)

C9_Witness ==
    /\ calls = 1
    /\ pc = "done"
    /\ rate_limit = 2
    /\ log[1].t = Epoch

\* ==================================================================== C10
\* One step of the loop ends the call or moves on to the next attempt
LoopStepAdvances == pc = "loop" => (pc' = "done" \/ attempt' = attempt + 1)

RequestCountBounded ==
    /\ Len(Sends) <= max_retries + 1
    /\ pc = "done" => Len(Sends) >= 1
    /\ pc = "loop" => (attempt = Len(Sends) /\ attempt <= max_retries /\ ENABLED Next)

EveryBackoffDoubles ==
    /\ Len(Backoffs) <= max_retries
    /\ \A k \in 1..Len(Backoffs) : Backoffs[k].d = retry_delay * (2 ^ (k - 1))

TrailingRaiseUnreached == result.msg # "Failed after retries"

\* C10: whatever the transport answers, a call ends by returning or raising
\* after at least 1 and at most max_retries + 1 requests (each loop step ends
\* the call or advances the shared attempt counter, which never exceeds
\* max_retries); the k-th backoff is retry_delay * 2^k whichever failure came
\* before it; the raise after the loop is never reached.
C10_BoundedAttempts ==
    /\ [](RequestCountBounded /\ EveryBackoffDoubles /\ TrailingRaiseUnreached)
    /\ [][LoopStepAdvances]_vars

C10_Witness ==
    /\ pc = "done"
    /\ Len(Sends) = 3
    /\ Sends[1].out = "connection"
    /\ Sends[2].out = "5xx"
    /\ Sends[3].out = "timeout"
    /\ retry_delay = 1

\* ==================================================================== C11
AuthTexts == {"401", "403"}

\* C11: a 401 or 403 response raises AuthenticationError carrying that status
\* code and the url, and is the last request of its call even when retries
\* remain.
C11_AuthFailsAtOnce ==
    \A i \in 1..Len(log) :
        log[i].out \in AuthTexts =>
            /\ i = Len(log)
            /\ pc = "done"
            /\ result.kind = "raise"
            /\ result.exc = "AuthenticationError"
            /\ StatusText(result.status_code) = log[i].out
            /\ result.url = CurrentUrl

C11_Witness ==
    /\ pc = "done"
    /\ LastEvent.out = "403"
    /\ max_retries = 2
    /\ Len(Sends) = 2
    /\ Sends[1].out = "5xx"

\* ==================================================================== C12
\* Statuses that are not 200, 429, 401, 403 or 5xx
OtherStatuses == {s \in StatusCodes : s \notin {200, 429, 401, 403} /\ s < 500}

OtherTexts == {StatusText(s) : s \in OtherStatuses}

\* C12: a response with any other status raises NetworkError carrying that
\* status at once: it is the last event of its call (no sleep, no retry after
\* it), and an error carrying such a status comes from no other path.
C12_OtherStatusFailsAtOnce ==
    /\ \A i \in 1..Len(log) :
          log[i].out \in OtherTexts =>
              /\ i = Len(log)
              /\ pc = "done"
              /\ result.kind = "raise"
              /\ result.exc = "NetworkError"
              /\ StatusText(result.status_code) = log[i].out
    /\ (pc = "done" /\ result.status_code \in OtherStatuses) =>
          LastEvent.out = StatusText(result.status_code)

C12_Witness ==
    /\ pc = "done"
    /\ LastEvent.out = "404"
    /\ max_retries = 2
    /\ Len(Sends) = 1
    /\ Len(Backoffs) = 0

\* ==================================================================== C13
TransportExceptions == {"timeout", "connection", "requestexception", "foreign"}

\* C13: whatever exception the transport raises, a call that ends on it ends
\* with NetworkError.
C13_Original ==
    (pc = "done" /\ LastEvent.out \in TransportExceptions) =>
        (result.kind = "raise" /\ result.exc = "NetworkError")

\* ------------------------------------------------------------------
\* Views of a validate_search_params call
Validated == vout.kind # "none"

\* The argument is a date the function can resolve, and the day it resolves to
Parses(a) == a.type = "datetime" \/ (a.type = "str" /\ Len(a.text) > 0 /\ IsDecimal(a.text))

DayOf(a) == IF a.type = "datetime" THEN a.day ELSE DecimalValue(a.text)

BothDatesGiven == Parses(vin.start_date) /\ Parses(vin.end_date)

LimitAcceptable == vin.limit.type = "none" \/ (vin.limit.type = "int" /\ vin.limit.n > 0)

DatesAcceptable ==
    /\ \A a \in {vin.start_date, vin.end_date} : Truthy(a) => Parses(a)
    /\ BothDatesGiven => DayOf(vin.start_date) <= DayOf(vin.end_date)

\* C14: when both dates are given, validate_search_params raises ValueError
\* whenever the resolved start is after the resolved end, and for every pair
\* with start <= end (equal included) it returns both resolved datetimes (the
\* limit being acceptable).
C14_DatesInOrder ==
    (Validated /\ BothDatesGiven) =>
        LET s == DayOf(vin.start_date)
            e == DayOf(vin.end_date)
        IN  /\ s > e => (vout.kind = "raise" /\ vout.exc = "ValueError")
            /\ (s <= e /\ LimitAcceptable) =>
                    /\ vout.kind = "return"
                    /\ vout.start_date = s
                    /\ vout.end_date = e

C14_Witness ==
    /\ vout.kind = "return"
    /\ vin.start_date = StrArg(<<"2">>)
    /\ vin.end_date = DateTimeArg(2)
    /\ vout.start_date = 2
    /\ vout.end_date = 2

\* C15: with acceptable dates, validate_search_params raises ValueError for a
\* limit that is zero, negative or not an int, returns the limit unchanged for
\* 1..1000, returns 1000 for a limit above 1000 without raising, and returns
\* no limit when the limit is None.
C15_LimitBounds ==
    (Validated /\ DatesAcceptable) =>
        LET l == vin.limit
        IN  /\ (l.type \notin {"none", "int"} \/ (l.type = "int" /\ l.n <= 0)) =>
                    /\ vout.kind = "raise"
                    /\ vout.exc = "ValueError"
                    /\ vout.msg = "Limit must be a positive integer"
            /\ (l.type = "int" /\ l.n \in 1..LimitCap) =>
                    (vout.kind = "return" /\ vout.limit = l.n)
            /\ (l.type = "int" /\ l.n > LimitCap) =>
                    (vout.kind = "return" /\ vout.limit = LimitCap)
            /\ l.type = "none" => (vout.kind = "return" /\ vout.limit = NoneInt)

C15_Witness ==
    /\ vout.kind = "return"
    /\ vin.limit = IntLimit(5000)
    /\ vout.limit = LimitCap
    /\ vin.start_date = NoDate

\* ------------------------------------------------------------------
\* Views of an adapter operation
SearchBegins == call = NoCall /\ call'.op = "search_cases"

InvalidArgs == ~DatesAcceptable \/ ~LimitAcceptable

OperationEnded == apc = "idle" /\ aresult.kind # "none"

\* C16: search_cases called with parameters that fail validation raises
\* ValueError in that step, and the step sends no request, makes no pacing
\* sleep (no event, no time passing) and leaves _last_request_time unchanged.
C16_InvalidParamsTouchNothing ==
    [][ (SearchBegins /\ InvalidArgs') =>
            /\ apc' = "idle"
            /\ aresult'.kind = "raise"
            /\ aresult'.exc = "ValueError"
            /\ UNCHANGED <<last_request_time, sends, calls, log, clock, pc>> ]_allvars

C16_Witness ==
    /\ adapter = "FindLaw"
    /\ call.op = "search_cases"
    /\ vin.start_date = DateTimeArg(2)
    /\ vin.end_date = DateTimeArg(1)
    /\ aresult.exc = "ValueError"
    /\ sends = 0

PipelineErrors == {"NetworkError", "RateLimitError", "AuthenticationError"}

\* the request of search_cases itself ended in a pipeline error
SearchRequestFailed ==
    /\ call.op = "search_cases"
    /\ OperationEnded
    /\ parsed.status = "none"
    /\ result.kind = "raise"
    /\ result.exc \in PipelineErrors

\* C17 (as stated): a pipeline-level error raised while search_cases fetches
\* or parses the result page reaches the caller as the same error kind with the
\* same status code and retry_after.
C17_Original ==
    /\ SearchRequestFailed =>
           aresult = Failure(result.exc, result.status_code, result.retry_after)
    /\ (call.op = "search_cases" /\ OperationEnded /\ parsed.status = "ParsingError") =>
           (aresult.kind = "raise" /\ aresult.exc = "ParsingError")

\* The links search_cases iterates over, by position
Iterated == Considered(parsed.items, vout.limit)

Positions(n) == [i \in 1..n |-> i]

NotFailed(i) == i \notin failed

\* C18: once the result page is parsed, search_cases returns normally whatever
\* subset of the links it iterates over fails to extract, and the list it
\* returns holds exactly the other links, in page order.
C18_FailuresAreSkipped ==
    (call.op = "search_cases" /\ OperationEnded /\ parsed.status = "ok") =>
        /\ aresult.kind = "cases"
        /\ aresult.cases = SelectSeq(Positions(Len(Iterated)), NotFailed)
        /\ \A i \in 1..Len(Iterated) : Iterated[i] = "fails" => i \in failed
        /\ adapter # "FindLaw" => \A i \in failed : Iterated[i] # "ok"

C18_Witness ==
    /\ adapter = "BAILII"
    /\ call.op = "search_cases"
    /\ OperationEnded
    /\ parsed.items = <<"ok", "fails", "ok">>
    /\ aresult.cases = <<1, 3>>

\* the case is absent: the site answered 404, or the search found nothing
CaseDoesNotExist ==
    \/ result.kind = "raise" /\ result.status_code = 404
    \/ call.searched # NoSearch /\ parsed.status = "ok"

\* C19 (as stated): get_case_by_id returns None only when the case does not
\* exist; a pipeline error is never turned into None.
C19_Original ==
    (call.op = "get_case_by_id" /\ OperationEnded /\ aresult.kind = "None") =>
        CaseDoesNotExist

\* C20 (as stated): get_case_by_id with a direct URL requests that URL and
\* makes no search; with any other id it calls search_cases(query=id, limit=1)
\* and requests nothing itself.
C20_Original ==
    (call.op = "get_case_by_id" /\ call.id # "empty" /\ call # NoCall) =>
        IF call.id = "url"
        THEN call.fetched = "case_id" /\ call.searched = NoSearch
        ELSE call.fetched = "none" /\ call.searched = [query |-> "case_id", limit |-> 1]

\* the limit the caller asked for, when it is an int >= 1
AskedLimit == IF vin.limit.type = "int" /\ vin.limit.n >= 1 THEN vin.limit.n ELSE NoneInt

\* C21 (as stated): for a limit >= 1, search_cases returns at most
\* min(limit, 1000) records, however many results the response contains.
C21_Original ==
    (call.op = "search_cases" /\ OperationEnded /\ aresult.kind = "cases"
        /\ AskedLimit # NoneInt) =>
        Len(aresult.cases) <= Min(AskedLimit, LimitCap)

\* the case_name of the record built from the item at position i
NameIsEmpty(i) == Iterated[i] = "noname"

\* the records of a search, returned as a list or as its first element
SearchRecords ==
    IF (call.op = "search_cases" \/ call.searched # NoSearch)
           /\ OperationEnded /\ parsed.status = "ok"
    THEN aresult.cases ELSE <<>>

\* C22 (as stated): every record search_cases or get_case_by_id returns has
\* a non-empty case_name; an item whose name extracts to the empty string is
\* never returned as a record.
C22_Original ==
    \A k \in 1..Len(SearchRecords) : ~NameIsEmpty(SearchRecords[k])

\* ------------------------------------------------------------------
\* C23: inside the with block the session is open; once the with statement
\* is left the session is closed, whether the block returned or raised, and
\* the exception of the block is the one the with statement raises; further
\* close() calls leave the session closed.
C23_ContextManagerCloses ==
    /\ cm.at \in {"in", "leaving"} => session = "open"
    /\ cm.at = "exited" => (session = "closed" /\ cm.propagated = cm.pending)
    /\ cm.closes > 0 => session = "closed"

C23_Witness ==
    /\ cm.at = "exited"
    /\ cm.pending = "NetworkError"
    /\ cm.propagated = "NetworkError"
    /\ cm.closes = 2
    /\ session = "closed"

\* ------------------------------------------------------------------
\* Views of a _parse_html call
Parsed == ph # NoParse

\* C24 (as stated): _parse_html raises ParsingError when its input is None
\* or an empty string.
C24_Original ==
    (Parsed /\ ph.content \in {"None", "empty"}) =>
        (ph.out.kind = "raise" /\ ph.out.exc = "ParsingError")

\* C25: _parse_html runs html.parser exactly when lxml raised; it returns the
\* tree of the first parser that gave one; it raises only when both raised,
\* and then ParsingError and nothing else.
C25_FallbackThenParsingError ==
    Parsed =>
        /\ (ph.fallback # NotRun) <=> (ph.primary.kind = "raise")
        /\ ph.primary.kind = "tree" => ph.out = ph.primary
        /\ (ph.primary.kind = "raise" /\ ph.fallback.kind = "tree") => ph.out = ph.fallback
        /\ ph.out.kind = "raise" <=>
               (ph.primary.kind = "raise" /\ ph.fallback.kind = "raise")
        /\ ph.out.kind = "raise" => ph.out.exc = "ParsingError"

C25_Witness ==
    /\ ph.content = "malformed"
    /\ ph.primary = Raises("ParserRejectedMarkup")
    /\ ph.out = Tree("html.parser")

\* ------------------------------------------------------------------
\* Views of the CaseData objects
BuiltNow(slot) == slot \notin cd.made /\ slot \in cd'.made

DefaultedFields(slot) == ContainerFields \ {cd.how[slot]}

\* no defaulted list or dict of one record is an object another record, or
\* another field of the same record, refers to
DefaultsAreOwn ==
    \A a \in cd.made : \A f \in DefaultedFields(a) :
        \A b \in cd.made : \A g \in ContainerFields :
            (a # b \/ f # g) => cd.recs[a][f] # cd.recs[b][g]

\* C26: a record built with case_name alone has empty lists for judges,
\* parties, legal_issues and citations and an empty dict for metadata; the
\* defaulted containers of a record belong to it alone, so that no step
\* changes the field values of two records at once.
C26_FreshEmptyDefaults ==
    /\ []DefaultsAreOwn
    /\ [][ /\ \A s \in Slots :
                (BuiltNow(s) /\ cd'.how[s] = "default") =>
                    \A f \in ContainerFields : FieldValue(s, f)' = EmptyOf(f)
           /\ \A a \in cd.made : \A b \in cd.made \ {a} :
                ~(Value(a)' # Value(a) /\ Value(b)' # Value(b)) ]_allvars

C26_Witness ==
    /\ cd.made = Slots
    /\ cd.how["a"] = "default"
    /\ cd.how["b"] = "default"
    /\ FieldValue("a", "judges") = <<"y">>
    /\ FieldValue("b", "judges") = <<>>

\* C27 (as stated): no operation after construction changes the field
\* values of an existing record.
C27_Original == [][ \A s \in cd.made : Value(s)' = Value(s) ]_allvars

FifteenFields ==
    {"case_name", "case_id", "court", "date", "url", "full_text", "summary",
     "judges", "parties", "legal_issues", "citations", "jurisdiction",
     "case_type", "outcome", "metadata"}

\* C28: two records compare equal exactly when all fifteen fields have equal
\* values, whichever objects hold the lists and the dict.
C28_StructuralEquality ==
    \A a \in cd.made : \A b \in cd.made :
        Equal(a, b) <=> \A f \in FifteenFields : FieldValue(a, f) = FieldValue(b, f)

C28_Witness ==
    /\ cd.made = Slots
    /\ cd.how["a"] = "citations"
    /\ cd.how["b"] = "citations"
    /\ cd.recs["a"]["citations"] # cd.recs["b"]["citations"]
    /\ cd.edits = 0
    /\ Equal("a", "b")

\* ------------------------------------------------------------------
\* C30: a call that returns returns the answer of its last request, and that
\* answer has status 200; a call whose last request was answered otherwise,
\* or not answered, raises.
C30_ReturnsOnly200 ==
    pc = "done" =>
        /\ result.kind \in {"return", "raise"}
        /\ result.kind = "return" <=> (LastEvent.ev = "send" /\ LastEvent.out = "200")
        /\ result.kind = "return" =>
               /\ result.status_code = 200
               /\ result.response = Len(Sends) - 1
               /\ \A k \in 1..(Len(Sends) - 1) : Sends[k].out # "200"

C30_Witness ==
    /\ pc = "done"
    /\ result.kind = "return"
    /\ Len(Sends) = 3
    /\ Sends[1].out = "timeout"
    /\ Sends[2].out = "5xx"

\* ------------------------------------------------------------------
\* Views of two instances
OwnStamp(i) == IF duo.inst[i].own = NoneInt THEN 0 ELSE duo.inst[i].own

\* the pacing sleep that i's own earlier responses call for
OwnPacing(i) ==
    LET p == duo.inst[i].pacing
        last == IF p.before = NoneInt THEN 0 ELSE p.before
        due == duo.inst[i].rate_limit - (p.at - last)
    IN  IF due > 0 THEN due ELSE 0

EachKeepsToItself ==
    \A i \in Instances :
        /\ duo.inst[i].used \in {"none", i}
        /\ duo.inst[i].session = i
        /\ duo.inst[i].last_request_time = OwnStamp(i)
        /\ duo.inst[i].pacing.at # NoneInt => duo.inst[i].pacing.slept = OwnPacing(i)

\* C29: under any interleaving, a step of one instance's thread leaves the
\* other instance's _last_request_time and session as they were, every
\* request goes through the session of its own instance, and each pacing
\* sleep is the one the instance's own earlier responses call for.
C29_InstancesShareNothing ==
    /\ []EachKeepsToItself
    /\ [][ \A i \in Instances : \A j \in Instances \ {i} :
              duo'.actor = i =>
                  /\ duo'.inst[j].last_request_time = duo.inst[j].last_request_time
                  /\ duo'.inst[j].session = duo.inst[j].session ]_allvars

C29_Witness ==
    /\ duo.inst["B"].pacing.slept = 1
    /\ duo.inst["B"].pacing.before # NoneInt
    /\ duo.inst["A"].own # NoneInt
    /\ duo.inst["A"].own > duo.inst["B"].pacing.before
    /\ duo.inst["A"].own <= duo.inst["B"].pacing.at
    /\ duo.inst["B"].pc = "sending"

====
